---- MODULE Spec2Model ----
(***************************************************************************)
(* ST7789 display driver (examples/rp2040-st7789).                         *)
(*                                                                         *)
(* The driver owns three GPIO output latches (CS, DC, RST) and one SPI     *)
(* peripheral.  Every platform call the driver makes (gpio_put,            *)
(* spi_write_blocking, sleep_ms, ...) is appended to a bus log, so that    *)
(* the log of a call is what a mock transport would observe.  The pixel    *)
(* loop of fillRect issues the same spi_write_blocking call n times with   *)
(* nothing in between; the log keeps it as one entry with times = n.       *)
(***************************************************************************)
EXTENDS Integers, Sequences, FiniteSets, TLC

\* ---------------------------------------------------------------- constants
ST7789_SWRESET == 1
ST7789_SLPOUT == 17
ST7789_COLMOD == 58
ST7789_MADCTL == 54
ST7789_CASET == 42
ST7789_RASET == 43
ST7789_RAMWR == 44
ST7789_DISPON == 41
ST7789_INVON == 33
ST7789_INVOFF == 32

SCREEN_WIDTH == 240
SCREEN_HEIGHT == 320

COLOR_WHITE == 65535
COLOR_RED == 63488
COLOR_GREEN == 2016
COLOR_BLUE == 31
COLOR_ORANGE == 64800

\* ------------------------------------------------------------------- bounds
\* Number of colours of ColorTable the drawing calls are tried with.
NumColors == 3

ColorTable == <<COLOR_RED, COLOR_GREEN, COLOR_WHITE, COLOR_BLUE, COLOR_ORANGE>>

Colors == {ColorTable[i] : i \in 1..NumColors}

\* 16-bit arguments tried: the origin, the last in-bounds coordinate, the
\* first out-of-bounds one and (for x) the largest uint16_t.
XS == {0, SCREEN_WIDTH - 1, SCREEN_WIDTH, 65535}
YS == {0, SCREEN_HEIGHT - 1, SCREEN_HEIGHT}
\* empty, one pixel, the full screen extent and the largest uint16_t.
WS == {0, 1, SCREEN_WIDTH, 65535}
HS == {0, 1, SCREEN_HEIGHT, 65535}
\* SPI clock rates passed to init(): the default / demo value and a slow one.
Bauds == {32000000, 1000000}
\* Arguments setWindow is tried with directly (both bytes of a coordinate
\* non-zero for 300 and 65535).
WinXS == {10, 50, 300, 65535}
WinYS == {20, 60, 300, 65535}

\* --------------------------------------------------------- integer widths
U8(v) == v % 256
U16(v) == v % 65536

\* -------------------------------------------------------------------- state
VARIABLES
    cs,       \* output latch of the chip-select pin (0 = asserted)
    dc,       \* output latch of the data/command pin (0 = command)
    rst,      \* output latch of the reset pin
    outs,     \* pins configured as outputs
    baud,     \* SPI clock rate, 0 while the peripheral is not initialised
    bus,      \* platform calls made by the most recent driver call, in order
    call      \* the most recent driver call and its arguments

vars == <<cs, dc, rst, outs, baud, bus, call>>

\* The hardware as the driver's methods see it; bus is the log being written.
HW == [cs |-> cs, dc |-> dc, rst |-> rst, outs |-> outs, baud |-> baud, bus |-> <<>>]

\* ----------------------------------------------------------- platform calls
Emit(hw, e) == [hw EXCEPT !.bus = Append(@, e)]

gpio_put(hw, pin, v) ==
    Emit([hw EXCEPT ![pin] = v], [ev |-> "gpio_put", pin |-> pin, val |-> v])

\* gpio_init leaves the pin an input with its output latch cleared.
gpio_init(hw, pin) ==
    Emit([hw EXCEPT ![pin] = 0, !.outs = @ \ {pin}], [ev |-> "gpio_init", pin |-> pin])

gpio_set_dir_out(hw, pin) ==
    Emit([hw EXCEPT !.outs = @ \cup {pin}], [ev |-> "gpio_set_dir", pin |-> pin])

gpio_set_function_spi(hw, pin) ==
    Emit(hw, [ev |-> "gpio_set_function", pin |-> pin])

spi_init(hw, baudrate) ==
    Emit([hw EXCEPT !.baud = baudrate], [ev |-> "spi_init", baudrate |-> baudrate])

sleep_ms(hw, ms) == Emit(hw, [ev |-> "sleep_ms", ms |-> ms])

\* One blocking transfer of `bytes`, repeated `times` times back to back; the
\* entry records the method that made the call and the pin levels during it.
spi_write_times(hw, by, bytes, times) ==
    IF times = 0 THEN hw
    ELSE Emit(hw, [ev |-> "spi_write", by |-> by, bytes |-> bytes, times |-> times,
                   cs |-> hw.cs, dc |-> hw.dc])

spi_write_blocking(hw, by, bytes) == spi_write_times(hw, by, bytes, 1)

\* ---------------------------------------------------------------- transport
writeCommand(hw, cmd) ==
    LET a == gpio_put(hw, "dc", 0)
        b == gpio_put(a, "cs", 0)
        c == spi_write_blocking(b, "writeCommand", <<U8(cmd)>>)
    IN  gpio_put(c, "cs", 1)

\* writeData with the DC line left in command state.
writeData_dcLow(hw, data) ==
    LET a == gpio_put(hw, "dc", 0)
        b == gpio_put(a, "cs", 0)
        c == spi_write_blocking(b, "writeData", <<U8(data)>>)
    IN  gpio_put(c, "cs", 1)

writeData(hw, data) ==
    LET a == gpio_put(hw, "dc", 1)
        b == gpio_put(a, "cs", 0)
        c == spi_write_blocking(b, "writeData", <<U8(data)>>)
    IN  gpio_put(c, "cs", 1)

writeDataBuf(hw, buf) ==
    LET a == gpio_put(hw, "dc", 1)
        b == gpio_put(a, "cs", 0)
        c == spi_write_blocking(b, "writeDataBuf", buf)
    IN  gpio_put(c, "cs", 1)

\* --------------------------------------------------------------- addressing
\* setWindow sending each coordinate low byte first.
setWindow_lowFirst(hw, x0, y0, x1, y1) ==
    LET c1 == writeCommand(hw, ST7789_CASET)
        c2 == writeData(c1, x0 % 256)
        c3 == writeData(c2, x0 \div 256)
        c4 == writeData(c3, x1 % 256)
        c5 == writeData(c4, x1 \div 256)
        r1 == writeCommand(c5, ST7789_RASET)
        r2 == writeData(r1, y0 % 256)
        r3 == writeData(r2, y0 \div 256)
        r4 == writeData(r3, y1 % 256)
        r5 == writeData(r4, y1 \div 256)
    IN  writeCommand(r5, ST7789_RAMWR)

setWindow(hw, x0, y0, x1, y1) ==
    LET c1 == writeCommand(hw, ST7789_CASET)
        c2 == writeData(c1, x0 \div 256)
        c3 == writeData(c2, x0 % 256)
        c4 == writeData(c3, x1 \div 256)
        c5 == writeData(c4, x1 % 256)
        r1 == writeCommand(c5, ST7789_RASET)
        r2 == writeData(r1, y0 \div 256)
        r3 == writeData(r2, y0 % 256)
        r4 == writeData(r3, y1 \div 256)
        r5 == writeData(r4, y1 % 256)
    IN  writeCommand(r5, ST7789_RAMWR)

\* ----------------------------------------------------------- initialisation
init_peripherals(hw, baudrate) ==
    LET s1 == spi_init(hw, baudrate)
        s2 == gpio_set_function_spi(s1, "sck")
        s3 == gpio_set_function_spi(s2, "mosi")
        g1 == gpio_init(s3, "cs")
        g2 == gpio_init(g1, "dc")
        g3 == gpio_init(g2, "rst")
        g4 == gpio_set_dir_out(g3, "cs")
        g5 == gpio_set_dir_out(g4, "dc")
    IN  gpio_set_dir_out(g5, "rst")

init_hardware_reset(hw) ==
    LET h1 == gpio_put(hw, "rst", 1)
        h2 == sleep_ms(h1, 100)
        h3 == gpio_put(h2, "rst", 0)
        h4 == sleep_ms(h3, 100)
        h5 == gpio_put(h4, "rst", 1)
    IN  sleep_ms(h5, 100)

\* The command sequence as the header documents it: COLMOD 0x05, INVON.
init_commands_asDocumented(hw) ==
    LET i1 == writeCommand(hw, ST7789_SWRESET)
        i2 == sleep_ms(i1, 150)
        i3 == writeCommand(i2, ST7789_SLPOUT)
        i4 == sleep_ms(i3, 120)
        i5 == writeCommand(i4, ST7789_COLMOD)
        i6 == writeData(i5, 5)
        i7 == writeCommand(i6, ST7789_MADCTL)
        i8 == writeData(i7, 0)
        i9 == writeCommand(i8, ST7789_INVON)
        i10 == writeCommand(i9, ST7789_DISPON)
    IN  sleep_ms(i10, 100)

init_commands(hw) ==
    LET i1 == writeCommand(hw, ST7789_SWRESET)
        i2 == sleep_ms(i1, 150)
        i3 == writeCommand(i2, ST7789_SLPOUT)
        i4 == sleep_ms(i3, 120)
        i5 == writeCommand(i4, ST7789_COLMOD)
        i6 == writeData(i5, 85)
        i7 == writeCommand(i6, ST7789_MADCTL)
        i8 == writeData(i7, 0)
        i9 == writeCommand(i8, ST7789_INVOFF)
        i10 == writeCommand(i9, ST7789_DISPON)
    IN  sleep_ms(i10, 100)

init(hw, baudrate) ==
    init_commands(init_hardware_reset(init_peripherals(hw, baudrate)))

\* ------------------------------------------------------------------ drawing
\* The bounds check with both comparisons off by one.
OutOfBounds_offByOne(x, y) == x > SCREEN_WIDTH \/ y > SCREEN_HEIGHT

OutOfBounds(x, y) == x >= SCREEN_WIDTH \/ y >= SCREEN_HEIGHT

\* The clip with the sum x + w computed in 16 bits.
ClipW_sum16(x, w) == IF U16(x + w) > SCREEN_WIDTH THEN U16(SCREEN_WIDTH - x) ELSE w

\* x + w is computed in int (no wrap); the result is stored back in uint16_t.
ClipW(x, w) == IF x + w > SCREEN_WIDTH THEN U16(SCREEN_WIDTH - x) ELSE w

ClipH(y, h) == IF y + h > SCREEN_HEIGHT THEN U16(SCREEN_HEIGHT - y) ELSE h

\* The colour sent low byte first.
ColorBuf_littleEndian(color) == <<U8(color % 256), U8(color \div 256)>>

ColorBuf(color) == <<U8(color \div 256), U8(color % 256)>>

\* (uint32_t)w * h: the product of two uint16_t values is below 2^32, so the
\* 32-bit loop bound is the exact product.
PixelCount(w, h) == w * h

\* fillRect streaming the pixels one row per chip-select transaction.
fillRows(hw, buf, wc, rows) ==
    LET per == IF wc = 0 THEN 2 ELSE 3
        entry(k) ==
            IF k = 0 THEN [ev |-> "gpio_put", pin |-> "cs", val |-> 0]
            ELSE IF k = per - 1 THEN [ev |-> "gpio_put", pin |-> "cs", val |-> 1]
            ELSE [ev |-> "spi_write", by |-> "fillRect", bytes |-> buf, times |-> wc,
                  cs |-> 0, dc |-> hw.dc]
        entries == [i \in 1..(per * rows) |-> entry((i - 1) % per)]
    IN  [hw EXCEPT !.bus = @ \o entries, !.cs = IF rows = 0 THEN @ ELSE 1]

fillRect_perRow(hw, x, y, w, h, color) ==
    IF OutOfBounds(x, y) THEN hw
    ELSE
        LET wc == ClipW(x, w)
            hc == ClipH(y, h)
            f1 == setWindow(hw, x, y, U16(x + wc - 1), U16(y + hc - 1))
            f2 == gpio_put(f1, "dc", 1)
        IN  fillRows(f2, ColorBuf(color), wc, hc)

fillRect(hw, x, y, w, h, color) ==
    IF OutOfBounds(x, y) THEN hw
    ELSE
        LET wc == ClipW(x, w)
            hc == ClipH(y, h)
            f1 == setWindow(hw, x, y, U16(x + wc - 1), U16(y + hc - 1))
            f2 == gpio_put(f1, "dc", 1)
            f3 == gpio_put(f2, "cs", 0)
            f4 == spi_write_times(f3, "fillRect", ColorBuf(color), PixelCount(wc, hc))
        IN  gpio_put(f4, "cs", 1)

\* fillScreen passing the last coordinate instead of the extent.
fillScreen_lastCoord(hw, color) ==
    fillRect(hw, 0, 0, SCREEN_WIDTH - 1, SCREEN_HEIGHT - 1, color)

fillScreen(hw, color) == fillRect(hw, 0, 0, SCREEN_WIDTH, SCREEN_HEIGHT, color)

\* drawPixel sending the two colour bytes with writeData, one transaction each.
drawPixel_perByte(hw, x, y, color) ==
    IF OutOfBounds(x, y) THEN hw
    ELSE
        LET p1 == setWindow(hw, x, y, x, y)
            p2 == writeData(p1, ColorBuf(color)[1])
        IN  writeData(p2, ColorBuf(color)[2])

drawPixel(hw, x, y, color) ==
    IF OutOfBounds(x, y) THEN hw
    ELSE writeDataBuf(setWindow(hw, x, y, x, y), ColorBuf(color))

\* ------------------------------------------------------------------ actions
\* The state after a driver call that left the hardware as `hw`.
Return(hw, c) ==
    /\ cs' = hw.cs
    /\ dc' = hw.dc
    /\ rst' = hw.rst
    /\ outs' = hw.outs
    /\ baud' = hw.baud
    /\ bus' = hw.bus
    /\ call' = c

\* After construction: no hardware has been touched; the GPIO output latches
\* and the SPI peripheral are in their reset state.
Init ==
    /\ cs = 0
    /\ dc = 0
    /\ rst = 0
    /\ outs = {}
    /\ baud = 0
    /\ bus = <<>>
    /\ call = [op |-> "ST7789"]

InitDisplay ==
    \E b \in Bauds :
        Return(init(HW, b), [op |-> "init", baudrate |-> b])

FillScreen ==
    \E c \in Colors :
        Return(fillScreen(HW, c), [op |-> "fillScreen", color |-> c])

FillRect ==
    \E x \in XS, y \in YS, w \in WS, h \in HS, c \in Colors :
        Return(fillRect(HW, x, y, w, h, c),
               [op |-> "fillRect", x |-> x, y |-> y, w |-> w, h |-> h, color |-> c])

DrawPixel ==
    \E x \in XS, y \in YS, c \in Colors :
        Return(drawPixel(HW, x, y, c),
               [op |-> "drawPixel", x |-> x, y |-> y, color |-> c])

Next == InitDisplay \/ FillScreen \/ FillRect \/ DrawPixel

Spec == Init /\ [][Next]_vars

\* setWindow applied directly to arbitrary 16-bit arguments.
SetWindow ==
    \E x0 \in WinXS, y0 \in WinYS, x1 \in WinXS, y1 \in WinYS :
        Return(setWindow(HW, x0, y0, x1, y1),
               [op |-> "setWindow", x0 |-> x0, y0 |-> y0, x1 |-> x1, y1 |-> y1])

NextWindow == SetWindow

SpecWindow == Init /\ [][NextWindow]_vars

\* ------------------------------------------------------- views of the log
Min(a, b) == IF a < b THEN a ELSE b

IsDrawing == call.op \in {"fillRect", "fillScreen", "drawPixel"}

HasOrigin == call.op \in {"fillRect", "drawPixel"}

OriginOnScreen == call.x < SCREEN_WIDTH /\ call.y < SCREEN_HEIGHT

IsSpi(e) == e.ev = "spi_write"

\* What the controller receives: the transfers in order, each with the DC
\* level it was sent under.
Wire(log) ==
    LET s == SelectSeq(log, IsSpi)
    IN  [i \in 1..Len(s) |-> [dc |-> s[i].dc, bytes |-> s[i].bytes, times |-> s[i].times]]

C(b) == [dc |-> 0, bytes |-> <<b>>, times |-> 1]
D(b) == [dc |-> 1, bytes |-> <<b>>, times |-> 1]

\* The 16-bit address the controller reads from the data bytes at i, i+1.
Addr(w, i) == w[i].bytes[1] * 256 + w[i + 1].bytes[1]

\* The transfers that follow the last command byte (the pixel stream).
AfterLastCommand(w) ==
    LET cmds == {i \in 1..Len(w) : w[i].dc = 0}
        last == CHOOSE i \in cmds : \A j \in cmds : j <= i
    IN  IF cmds = {} THEN w ELSE SubSeq(w, last + 1, Len(w))

RECURSIVE SumTimes(_)
SumTimes(w) == IF w = <<>> THEN 0 ELSE w[1].times + SumTimes(Tail(w))

\* Pin changes and transfers only, in order, in one record shape.
IsSignal(e) == e.ev \in {"gpio_put", "spi_write"}

Signal(e) ==
    IF e.ev = "gpio_put"
    THEN [k |-> "pin", pin |-> e.pin, val |-> e.val, bytes |-> <<>>, times |-> 0]
    ELSE [k |-> "spi", pin |-> "mosi", val |-> 0, bytes |-> e.bytes, times |-> e.times]

Signals(log) ==
    LET s == SelectSeq(log, IsSignal)
    IN  [i \in 1..Len(s) |-> Signal(s[i])]

Pin(p, v) == [k |-> "pin", pin |-> p, val |-> v, bytes |-> <<>>, times |-> 0]
Xfer(bytes, n) == [k |-> "spi", pin |-> "mosi", val |-> 0, bytes |-> bytes, times |-> n]

ExpectCommand(b) == <<Pin("dc", 0), Pin("cs", 0), Xfer(<<b>>, 1), Pin("cs", 1)>>
ExpectData(b) == <<Pin("dc", 1), Pin("cs", 0), Xfer(<<b>>, 1), Pin("cs", 1)>>

ExpectWindow(x0, y0, x1, y1) ==
    ExpectCommand(42)
        \o ExpectData(x0 \div 256) \o ExpectData(x0 % 256)
        \o ExpectData(x1 \div 256) \o ExpectData(x1 % 256)
    \o ExpectCommand(43)
        \o ExpectData(y0 \div 256) \o ExpectData(y0 % 256)
        \o ExpectData(y1 \div 256) \o ExpectData(y1 % 256)
    \o ExpectCommand(44)

\* ------------------------------------------------------------------- claims

\* C1: after any fillRect, fillScreen or drawPixel call, every column address
\* sent after CASET is in 0..SCREEN_WIDTH-1 and every row address sent after
\* RASET is in 0..SCREEN_HEIGHT-1.
C1_AddressesOnScreen ==
    IsDrawing =>
        LET w == Wire(bus)
        IN  \A i \in 1..Len(w) :
                /\ (w[i] = C(42)) =>
                       /\ Addr(w, i + 1) \in 0..(SCREEN_WIDTH - 1)
                       /\ Addr(w, i + 3) \in 0..(SCREEN_WIDTH - 1)
                /\ (w[i] = C(43)) =>
                       /\ Addr(w, i + 1) \in 0..(SCREEN_HEIGHT - 1)
                       /\ Addr(w, i + 3) \in 0..(SCREEN_HEIGHT - 1)

\* C2: a drawPixel or fillRect call whose origin has x >= SCREEN_WIDTH or
\* y >= SCREEN_HEIGHT makes no platform call at all and leaves the CS, DC and
\* RST levels as they were before the call.
C2_OutOfBoundsNoOp ==
    [][ (call'.op \in {"fillRect", "drawPixel"}
            /\ (call'.x >= SCREEN_WIDTH \/ call'.y >= SCREEN_HEIGHT))
        => (bus' = <<>> /\ cs' = cs /\ dc' = dc /\ rst' = rst
            /\ outs' = outs /\ baud' = baud) ]_vars

C2_Witness ==
    /\ call.op = "fillRect"
    /\ call.x < SCREEN_WIDTH /\ call.y >= SCREEN_HEIGHT
    /\ call.w > 0 /\ call.h > 0
    /\ bus = <<>>
    /\ cs = 1 /\ dc = 1 /\ baud # 0

\* C3: a fillRect with its origin on screen whose rectangle passes the right
\* or bottom edge is clipped to wc = min(w, SCREEN_WIDTH - x) and
\* hc = min(h, SCREEN_HEIGHT - y): the window set ends at x + wc - 1 and
\* y + hc - 1, and exactly wc * hc two-byte transfers follow the RAMWR command.
C3_ClipAndCount ==
    (call.op = "fillRect" /\ OriginOnScreen
        /\ (call.x + call.w > SCREEN_WIDTH \/ call.y + call.h > SCREEN_HEIGHT)) =>
        LET wc == Min(call.w, SCREEN_WIDTH - call.x)
            hc == Min(call.h, SCREEN_HEIGHT - call.y)
            w == Wire(bus)
            px == AfterLastCommand(w)
        IN  /\ call.x + wc <= SCREEN_WIDTH
            /\ call.y + hc <= SCREEN_HEIGHT
            /\ Len(w) >= 11
            /\ w[1] = C(42) /\ w[6] = C(43) /\ w[11] = C(44)
            /\ Addr(w, 2) = call.x /\ Addr(w, 7) = call.y
            /\ (wc >= 1 => Addr(w, 4) = call.x + wc - 1)
            /\ (hc >= 1 => Addr(w, 9) = call.y + hc - 1)
            /\ px = SubSeq(w, 12, Len(w))
            /\ \A i \in 1..Len(px) : px[i].dc = 1 /\ Len(px[i].bytes) = 2
            /\ SumTimes(px) = wc * hc

C3_Witness ==
    /\ call.op = "fillRect"
    /\ call.x = SCREEN_WIDTH - 1 /\ call.w = 65535
    /\ call.y = 0 /\ call.h = 65535
    /\ SumTimes(AfterLastCommand(Wire(bus))) = SCREEN_HEIGHT

\* The pin changes and transfers of a fill of the whole screen: the window
\* (0,0)-(239,319) = 0x0000..0x00EF by 0x0000..0x013F, then 240 * 320 = 76800
\* pixels inside one chip-select assertion.
ExpectFullScreen(color) ==
    ExpectCommand(42)
        \o ExpectData(0) \o ExpectData(0) \o ExpectData(0) \o ExpectData(239)
    \o ExpectCommand(43)
        \o ExpectData(0) \o ExpectData(0) \o ExpectData(1) \o ExpectData(63)
    \o ExpectCommand(44)
    \o <<Pin("dc", 1), Pin("cs", 0),
         Xfer(<<color \div 256, color % 256>>, 76800),
         Pin("cs", 1)>>

\* C4: fillScreen(c) and fillRect(0, 0, SCREEN_WIDTH, SCREEN_HEIGHT, c) produce
\* the same sequence of pin changes and transfers: the window (0,0)-(239,319)
\* followed by SCREEN_WIDTH * SCREEN_HEIGHT pixels of c.
C4_FillScreenIsFullRect ==
    (\/ call.op = "fillScreen"
     \/ /\ call.op = "fillRect"
        /\ call.x = 0 /\ call.y = 0
        /\ call.w = SCREEN_WIDTH /\ call.h = SCREEN_HEIGHT)
    => Signals(bus) = ExpectFullScreen(call.color)

C4_Witness ==
    /\ call.op = "fillScreen"
    /\ call.color = 2016
    /\ SumTimes(AfterLastCommand(Wire(bus))) = SCREEN_WIDTH * SCREEN_HEIGHT

\* C5: setWindow(x0, y0, x1, y1) sends exactly CASET, x0 high, x0 low,
\* x1 high, x1 low, RASET, y0 high, y0 low, y1 high, y1 low, RAMWR, and
\* nothing after RAMWR; setWindow(10,20,50,60) sends column data
\* 00 0A 00 32 and row data 00 14 00 3C.
C5_SetWindowSequence ==
    call.op = "setWindow" =>
        /\ Wire(bus) = << C(42), D(call.x0 \div 256), D(call.x0 % 256),
                                 D(call.x1 \div 256), D(call.x1 % 256),
                          C(43), D(call.y0 \div 256), D(call.y0 % 256),
                                 D(call.y1 \div 256), D(call.y1 % 256),
                          C(44) >>
        /\ (call.x0 = 10 /\ call.y0 = 20 /\ call.x1 = 50 /\ call.y1 = 60) =>
               Wire(bus) = << C(42), D(0), D(10), D(0), D(50),
                              C(43), D(0), D(20), D(0), D(60), C(44) >>

C5_Witness ==
    /\ call.op = "setWindow"
    /\ call.x0 = 10 /\ call.y0 = 20 /\ call.x1 = 300 /\ call.y1 = 65535
    /\ Len(Wire(bus)) = 11

C7_InitSendsInvon ==
    call.op = "init" =>
        LET w == Wire(bus)
        IN  \E i, j, k \in 1..Len(w) :
                /\ i < j /\ j < k
                /\ w[i] = C(54) /\ w[j] = C(33) /\ w[k] = C(41)

\* C8: every pixel fillRect and drawPixel write is the two bytes
\* [v >> 8, v & 0xFF] of the colour v, high byte first, and
\* byte0 * 256 + byte1 = v; 0xF800 is F8 00, 0x07E0 is 07 E0, 0xFFFF is FF FF.
C8_ColorBigEndian ==
    (HasOrigin /\ OriginOnScreen) =>
        LET px == AfterLastCommand(Wire(bus))
            v == call.color
        IN  /\ call.op = "drawPixel" => Len(px) = 1
            /\ \A i \in 1..Len(px) :
                   /\ px[i].bytes = <<v \div 256, v % 256>>
                   /\ px[i].bytes[1] * 256 + px[i].bytes[2] = v
                   /\ (v = 63488 => px[i].bytes = <<248, 0>>)
                   /\ (v = 2016 => px[i].bytes = <<7, 224>>)
                   /\ (v = 65535 => px[i].bytes = <<255, 255>>)

C8_Witness ==
    /\ call.op = "fillRect"
    /\ call.color = 63488
    /\ call.x = 0 /\ call.y = 0 /\ call.w = 1 /\ call.h = SCREEN_HEIGHT
    /\ AfterLastCommand(Wire(bus)) = <<[dc |-> 1, bytes |-> <<248, 0>>, times |-> SCREEN_HEIGHT]>>

\* C9: every transfer is made with CS low; command bytes are sent with DC
\* low, data and pixel bytes with DC high; and CS is high when a call that
\* transferred anything has returned.
C9_Framing ==
    /\ \A i \in 1..Len(bus) :
           IsSpi(bus[i]) =>
               /\ bus[i].cs = 0
               /\ bus[i].dc = (IF bus[i].by = "writeCommand" THEN 0 ELSE 1)
    /\ (\E i \in 1..Len(bus) : IsSpi(bus[i])) => cs = 1

C9_Witness ==
    /\ call.op = "fillRect"
    /\ \E i \in 1..Len(bus) :
           IsSpi(bus[i]) /\ bus[i].by = "fillRect" /\ bus[i].times > 1
    /\ cs = 1

\* C10: drawPixel with (x, y) on screen emits the setWindow(x, y, x, y)
\* sequence, then DC high, CS low, one transfer of the two bytes
\* [color >> 8, color & 0xFF], CS high, and nothing else.
C10_DrawPixelSequence ==
    (call.op = "drawPixel" /\ OriginOnScreen) =>
        Signals(bus) =
            ExpectWindow(call.x, call.y, call.x, call.y)
            \o <<Pin("dc", 1), Pin("cs", 0),
                 Xfer(<<call.color \div 256, call.color % 256>>, 1),
                 Pin("cs", 1)>>

C10_Witness ==
    /\ call.op = "drawPixel"
    /\ call.x = SCREEN_WIDTH - 1 /\ call.y = SCREEN_HEIGHT - 1
    /\ call.color = 63488
    /\ Len(Signals(bus)) = 48

\* C11: in a fillRect with its origin on screen, the pixel stream directly
\* follows the RAMWR command of the window setup as one transaction: DC is
\* driven high and CS low once, the two-byte colour is transferred
\* wc * hc times with no pin change and no command in between, and CS is
\* driven high after the last pixel, which ends the call.
C11_OneContinuousTransaction ==
    (call.op = "fillRect" /\ OriginOnScreen) =>
        LET s == Signals(bus)
            wc == Min(call.w, SCREEN_WIDTH - call.x)
            hc == Min(call.h, SCREEN_HEIGHT - call.y)
            pattern == <<call.color \div 256, call.color % 256>>
        IN  /\ Len(s) >= 44
            /\ SubSeq(s, 1, 4) = ExpectCommand(42)
            /\ SubSeq(s, 21, 24) = ExpectCommand(43)
            /\ SubSeq(s, 41, 44) = ExpectCommand(44)
            /\ SubSeq(s, 45, Len(s)) =
                   <<Pin("dc", 1), Pin("cs", 0)>>
                   \o (IF wc * hc > 0 THEN <<Xfer(pattern, wc * hc)>> ELSE <<>>)
                   \o <<Pin("cs", 1)>>
            /\ \A i \in 1..Len(bus) :
                   (IsSpi(bus[i]) /\ bus[i].by = "fillRect") =>
                       bus[i].cs = 0 /\ bus[i].dc = 1

C11_Witness ==
    /\ call.op = "fillRect"
    /\ call.x = 0 /\ call.y = 0 /\ call.w = 65535 /\ call.h = 65535
    /\ Len(Signals(bus)) = 48
    /\ Signals(bus)[47] = Xfer(<<call.color \div 256, call.color % 256>>, 76800)
    /\ cs = 1

\* n pixels fill a window of cols columns and rows rows exactly.
AreaIs(n, cols, rows) ==
    /\ cols >= 1
    /\ rows >= 1
    /\ n % cols = 0
    /\ n \div cols = rows

\* C12: every window fillRect or drawPixel sets from an on-screen origin has
\* x0 <= x1 and y0 <= y1, and the number of pixels streamed after it is
\* (x1 - x0 + 1) * (y1 - y0 + 1).
C12_WindowWellFormed ==
    (HasOrigin /\ OriginOnScreen) =>
        LET w == Wire(bus)
            x0 == Addr(w, 2)
            x1 == Addr(w, 4)
            y0 == Addr(w, 7)
            y1 == Addr(w, 9)
        IN  /\ w[1] = C(42) /\ w[6] = C(43) /\ w[11] = C(44)
            /\ x0 <= x1
            /\ y0 <= y1
            /\ AreaIs(SumTimes(AfterLastCommand(w)), x1 - x0 + 1, y1 - y0 + 1)

====
